---- MODULE Spec2Model ----
(***************************************************************************)
(* Transactional overlay of substrate's historied-data crate (linear.rs):  *)
(* the shared layer stack `States` and one per-key `History`.              *)
(*                                                                         *)
(* Indices are the source's 0-based indices; a TLA+ sequence is 1-based,   *)
(* so element i of a Vec v is v[i + 1].                                    *)
(* An Option<T> is the set of its values: None is {} and Some(x) is {x}.   *)
(***************************************************************************)
EXTENDS Integers, Sequences, FiniteSets, TLC

\* ---------------------------------------------------------------- bounds
\* Longest layer stack explored (every States operation appends one layer).
MaxLayers == 4
\* Values written are 1..MaxValue.
MaxValue == 2
\* Longest operation sequence of the transaction-only specification.
MaxTrace == 6
\* Longest layer stack / history of the drawn inputs of SpecPure.
MaxPure == 3

Values == 1..MaxValue

\* usize::max_value(): only ever compared with layer indices, so any number
\* above every layer index behaves as the source's 2^64 - 1 (TLC's integers
\* are 32 bits wide).
usize_max == 2147483647

\* ---------------------------------------------------------------- types
TransactionState == {"Pending", "TxPending", "Dropped"}

HistoriedValue(value, index) == [value |-> value, index |-> index]

None == {}
Some(x) == {x}

\* vec.truncate(n): keep the first n elements.
truncate(h, n) == IF n < Len(h) THEN SubSeq(h, 1, n) ELSE h

\* Remove the first `index` elements (both the spilled and the inline branch).
truncate_until(h, index) == IF index > 0 THEN SubSeq(h, index + 1, Len(h)) ELSE h

\* push_unchecked inserting at the front of the buffer.
push_front(h, e) == <<e>> \o h

push_unchecked(h, e) == Append(h, e)

\* ---------------------------------------------------------------- States
\* States::default
default_layers == <<"Pending">>
default_committed == 0

\* discard_prospective dropping every layer, committed or not.
discard_prospective_all(l, c) == Append([i \in 1..Len(l) |-> "Dropped"], "Pending")

\* discard_prospective without its final push.
discard_prospective_no_push(l, c) ==
    [i \in 1..Len(l) |-> IF i - 1 >= c THEN "Dropped" ELSE l[i]]

\* States::discard_prospective, the layers it leaves.
discard_prospective(l, c) ==
    Append([i \in 1..Len(l) |-> IF i - 1 >= c THEN "Dropped" ELSE l[i]], "Pending")

\* States::commit_prospective
commit_prospective_committed(l) == Len(l)
commit_prospective(l) == Append(l, "Pending")

\* States::start_transaction
start_transaction(l) == Append(l, "TxPending")

\* The loop of discard_transaction without its break at the TxPending layer.
discard_transaction_loop_no_break(l, c, i) ==
    [k \in 1..Len(l) |-> IF k - 1 >= c /\ k - 1 < i THEN "Dropped" ELSE l[k]]

\* The loop of discard_transaction stopping at the TxPending layer without
\* dropping it.
discard_transaction_loop_keep_tx(l, c, i) ==
    LET tx == {j \in c..(i - 1) : l[j + 1] = "TxPending"}
        lo == IF tx = {} THEN c ELSE (CHOOSE j \in tx : \A k \in tx : k <= j) + 1
    IN [k \in 1..Len(l) |-> IF k - 1 >= lo /\ k - 1 < i THEN "Dropped" ELSE l[k]]

\* The loop of discard_transaction running down to 0 instead of committed.
discard_transaction_loop_to_zero(l, c, i) ==
    LET tx == {j \in 0..(i - 1) : l[j + 1] = "TxPending"}
        lo == IF tx = {} THEN 0 ELSE CHOOSE j \in tx : \A k \in tx : k <= j
    IN [k \in 1..Len(l) |-> IF k - 1 >= lo /\ k - 1 < i THEN "Dropped" ELSE l[k]]

\* The while loop of States::discard_transaction, i counting down to committed.
RECURSIVE discard_transaction_loop(_, _, _)
discard_transaction_loop(l, c, i) ==
    IF i > c
    THEN LET j == i - 1 IN
         CASE l[j + 1] = "Dropped" -> discard_transaction_loop(l, c, j)
           [] l[j + 1] = "Pending" ->
                discard_transaction_loop([l EXCEPT ![j + 1] = "Dropped"], c, j)
           [] l[j + 1] = "TxPending" -> [l EXCEPT ![j + 1] = "Dropped"]
    ELSE l

\* discard_transaction removing the discarded layers instead of flipping them.
discard_transaction_pop(l, c) ==
    LET tx == {j \in c..(Len(l) - 1) : l[j + 1] = "TxPending"}
        lo == IF tx = {} THEN c ELSE CHOOSE j \in tx : \A k \in tx : k <= j
    IN Append(SubSeq(l, 1, lo), "Pending")

\* States::discard_transaction
discard_transaction(l, c) == Append(discard_transaction_loop(l, c, Len(l)), "Pending")

\* The loop of commit_transaction without the flip of the TxPending layer.
commit_transaction_loop_no_flip(l, c, i) == l

\* The loop of commit_transaction running down to 0 instead of committed.
commit_transaction_loop_to_zero(l, c, i) ==
    LET tx == {j \in 0..(i - 1) : l[j + 1] = "TxPending"}
    IN IF tx = {} THEN l
       ELSE [l EXCEPT ![(CHOOSE j \in tx : \A k \in tx : k <= j) + 1] = "Pending"]

\* The while loop of States::commit_transaction.
RECURSIVE commit_transaction_loop(_, _, _)
commit_transaction_loop(l, c, i) ==
    IF i > c
    THEN LET j == i - 1 IN
         CASE l[j + 1] \in {"Pending", "Dropped"} -> commit_transaction_loop(l, c, j)
           [] l[j + 1] = "TxPending" -> [l EXCEPT ![j + 1] = "Pending"]
    ELSE l

\* States::commit_transaction
commit_transaction(l, c) == Append(commit_transaction_loop(l, c, Len(l)), "Pending")

\* unchecked_rollback_committed resetting the index without discarding.
unchecked_rollback_committed_keep(l, old_committed) == Append(l, "Pending")

\* States::unchecked_rollback_committed: committed becomes old_committed, then
\* discard_prospective runs against it.
unchecked_rollback_committed(l, old_committed) == discard_prospective(l, old_committed)

\* find_previous_tx_start: for i in (states.1 .. from).rev()
RECURSIVE find_previous_tx_start_loop(_, _, _)
find_previous_tx_start_loop(l, c, i) ==
    IF i > c
    THEN IF l[(i - 1) + 1] = "TxPending" THEN i - 1
         ELSE find_previous_tx_start_loop(l, c, i - 1)
    ELSE c

\* find_previous_tx_start scanning down to 0 instead of committed.
find_previous_tx_start_to_zero(l, c, from) == find_previous_tx_start_loop(l, 0, from)

\* find_previous_tx_start scanning nothing: the scope starts at `from` itself.
find_previous_tx_start_none(l, c, from) == from

find_previous_tx_start(l, c, from) == find_previous_tx_start_loop(l, c, from)

\* ---------------------------------------------------------------- History
\* History::get: the while loop, index counting down.
RECURSIVE get_loop(_, _, _)
get_loop(h, l, index) ==
    IF index > 0
    THEN LET e == h[(index - 1) + 1] IN
         IF l[e.index + 1] = "Dropped" THEN get_loop(h, l, index - 1)
         ELSE Some(e.value)
    ELSE None

\* get returning the newest entry without looking at its layer's state.
get_top(h, l) == IF Len(h) = 0 THEN None ELSE Some(h[Len(h)].value)

get(h, l) == get_loop(h, l, Len(h))

\* History::into_pending: the value moved out (the history is consumed).
RECURSIVE into_pending_loop(_, _, _)
into_pending_loop(h, l, index) ==
    IF index > 0
    THEN LET i == index - 1 IN
         IF l[h[i + 1].index + 1] = "Dropped" THEN into_pending_loop(h, l, i)
         ELSE LET t == truncate(h, i + 1) IN
              IF Len(t) = 0 THEN None ELSE Some(t[Len(t)].value)
    ELSE None

into_pending(h, l) == into_pending_loop(h, l, Len(h))

\* History::into_committed
RECURSIVE into_committed_loop(_, _, _, _)
into_committed_loop(h, l, c, index) ==
    IF index > 0
    THEN LET i == index - 1
             state_index == h[i + 1].index IN
         IF state_index < c /\ l[state_index + 1] # "Dropped"
         THEN LET t == truncate(h, i + 1) IN
              IF Len(t) = 0 THEN None ELSE Some(t[Len(t)].value)
         ELSE into_committed_loop(h, l, c, i)
    ELSE None

\* into_committed without the test against committed.
into_committed_any(h, l, c) == into_pending(h, l)

into_committed(h, l, c) == into_committed_loop(h, l, c, Len(h))

\* The while loop of History::get_mut. st holds the loop's locals: index,
\* result, previous_transaction and previous_switch; the value returned is st
\* when the loop ends or breaks.
RECURSIVE get_mut_loop(_, _, _, _)
get_mut_loop(h, l, c, st) ==
    IF st.index > 0
    THEN LET index == st.index - 1
             state_index == h[index + 1].index
             s1 == [st EXCEPT !.index = index] IN
         CASE l[state_index + 1] = "TxPending" ->
                IF state_index >= st.previous_transaction
                THEN [s1 EXCEPT !.previous_switch = Some(<<index, state_index>>)]
                ELSE IF st.result = None
                     THEN [s1 EXCEPT !.result = Some(<<index, state_index>>)]
                     ELSE s1
           [] l[state_index + 1] = "Pending" ->
                IF state_index >= st.previous_transaction
                THEN get_mut_loop(h, l, c,
                        [s1 EXCEPT !.previous_switch = Some(<<index, state_index>>)])
                ELSE IF st.result = None
                     THEN get_mut_loop(h, l, c,
                            [s1 EXCEPT !.result = Some(<<index, state_index>>),
                                       !.previous_transaction =
                                           find_previous_tx_start(l, c, state_index)])
                     ELSE s1
           [] l[state_index + 1] = "Dropped" -> get_mut_loop(h, l, c, s1)
    ELSE st

\* The locals of get_mut / get_mut_pruning before the loop.
loop_start(h) ==
    [index |-> Len(h), result |-> None, previous_transaction |-> usize_max,
     previous_switch |-> None, prune_index |-> 0]

\* The part after the loop without the trim of the tail above the result.
compact_keep_tail(h, st, deleted) ==
    IF st.result # None
    THEN LET res == CHOOSE r \in st.result : TRUE
             index == res[1]
             state_index == res[2]
         IN IF st.previous_switch # None
            THEN LET sw == CHOOSE r \in st.previous_switch : TRUE
                     switch_index == sw[1]
                     h2 == push_unchecked(
                               SubSeq(h, 1, switch_index - deleted),
                               HistoriedValue(h[index + 1 - deleted].value, sw[2]))
                 IN [h |-> h2 \o SubSeq(h, index + 2 - deleted, Len(h)),
                     ret |-> Some(<<switch_index - deleted, sw[2]>>)]
            ELSE [h |-> h, ret |-> Some(<<index - deleted, state_index>>)]
    ELSE [h |-> <<>>, ret |-> None]

\* The part of get_mut after the loop: trim the tail above the result, and
\* move the result into the slot of previous_switch, relabelled. `deleted` is
\* the number of entries already removed from the front (0 in get_mut).
\* Returns the history left and ret, the Option of (position, layer index) of
\* the entry the returned handle points to.
compact(h, st, deleted) ==
    IF st.result # None
    THEN LET res == CHOOSE r \in st.result : TRUE
             index == res[1]
             state_index == res[2]
             h1 == IF index + 1 - deleted < Len(h) THEN truncate(h, index + 1 - deleted) ELSE h
         IN IF st.previous_switch # None
            THEN LET sw == CHOOSE r \in st.previous_switch : TRUE
                     switch_index == sw[1]
                     h2 == IF Len(h1) > 0
                           THEN push_unchecked(
                                   truncate(SubSeq(h1, 1, Len(h1) - 1), switch_index - deleted),
                                   HistoriedValue(h1[Len(h1)].value, sw[2]))
                           ELSE h1
                 IN [h |-> h2, ret |-> Some(<<switch_index - deleted, sw[2]>>)]
            ELSE [h |-> h1, ret |-> Some(<<index - deleted, state_index>>)]
    ELSE [h |-> <<>>, ret |-> None]

\* History::get_mut
get_mut(h, l, c) ==
    IF Len(h) = 0 THEN [h |-> h, ret |-> None]
    ELSE compact(h, get_mut_loop(h, l, c, loop_start(h)), 0)

\* The while loop of History::get_mut_pruning.
RECURSIVE get_mut_pruning_loop(_, _, _, _, _)
get_mut_pruning_loop(h, l, c, prune_to_commit, st) ==
    IF st.index > 0
    THEN LET index == st.index - 1
             state_index == h[index + 1].index
             s0 == [st EXCEPT !.index = index]
             s1 == IF state_index < c /\ index > st.prune_index
                   THEN [s0 EXCEPT !.prune_index = index] ELSE s0
             stop == IF prune_to_commit THEN state_index < c ELSE TRUE
         IN
         CASE l[state_index + 1] = "TxPending" ->
                LET s2 == IF state_index >= st.previous_transaction
                          THEN [s1 EXCEPT !.previous_switch = Some(<<index, state_index>>)]
                          ELSE IF st.result = None
                               THEN [s1 EXCEPT !.result = Some(<<index, state_index>>)]
                               ELSE s1
                IN IF stop THEN s2
                   ELSE get_mut_pruning_loop(h, l, c, prune_to_commit, s2)
           [] l[state_index + 1] = "Pending" ->
                IF state_index >= st.previous_transaction
                THEN get_mut_pruning_loop(h, l, c, prune_to_commit,
                        [s1 EXCEPT !.previous_switch = Some(<<index, state_index>>)])
                ELSE IF st.result = None
                     THEN get_mut_pruning_loop(h, l, c, prune_to_commit,
                            [s1 EXCEPT !.result = Some(<<index, state_index>>),
                                       !.previous_transaction =
                                           find_previous_tx_start(l, c, state_index)])
                     ELSE IF stop THEN s1
                          ELSE get_mut_pruning_loop(h, l, c, prune_to_commit, s1)
           [] l[state_index + 1] = "Dropped" ->
                get_mut_pruning_loop(h, l, c, prune_to_commit, s0)
    ELSE st

\* `deleted` with the prune_to_commit flag forgotten.
deleted_of_unflagged(st, prune_to_commit) ==
    IF st.prune_index > 0 /\ st.result # None THEN st.prune_index ELSE 0

\* `deleted` one short: the entry just before prune_index is kept.
deleted_of_short(st, prune_to_commit) ==
    IF prune_to_commit /\ st.prune_index > 0 /\ st.result # None
    THEN st.prune_index - 1 ELSE 0

\* `deleted` when nothing is ever pruned.
deleted_of_never(st, prune_to_commit) == 0 * st.prune_index

\* `deleted` of get_mut_pruning: the number of entries truncate_until removes.
deleted_of(st, prune_to_commit) ==
    IF prune_to_commit /\ st.prune_index > 0 /\ st.result # None
    THEN st.prune_index ELSE 0

\* History::get_mut_pruning
get_mut_pruning(h, l, c, prune_to_commit) ==
    IF Len(h) = 0 THEN [h |-> h, ret |-> None]
    ELSE LET st == get_mut_pruning_loop(h, l, c, prune_to_commit, loop_start(h))
             deleted == deleted_of(st, prune_to_commit)
         IN compact(truncate_until(h, deleted), st, deleted)

\* The usize subtractions of get_mut_pruning (index + 1 - deleted,
\* switch_index - deleted) stay at or above zero.
no_underflow(h, l, c, prune_to_commit) ==
    Len(h) = 0 \/
    LET st == get_mut_pruning_loop(h, l, c, prune_to_commit, loop_start(h))
        deleted == deleted_of(st, prune_to_commit)
    IN /\ \A r \in st.result : r[1] + 1 >= deleted /\ r[1] >= deleted
       /\ st.result # None => \A r \in st.previous_switch : r[1] >= deleted

\* set tagging the appended entry with the committed index, not the top layer.
set_tag_committed(h, l, c, value) ==
    LET g == get_mut(h, l, c) IN
    IF g.ret # None /\ (CHOOSE r \in g.ret : TRUE)[2] = Len(l) - 1
    THEN [g.h EXCEPT ![(CHOOSE r \in g.ret : TRUE)[1] + 1].value = value]
    ELSE push_unchecked(g.h, HistoriedValue(value, c))

\* A set that never overwrites in place.
set_always_push(h, l, c, value) ==
    push_unchecked(get_mut(h, l, c).h, HistoriedValue(value, Len(l) - 1))

\* History::set, the history it leaves.
set(h, l, c, value) ==
    LET g == get_mut(h, l, c) IN
    IF g.ret # None /\ (CHOOSE r \in g.ret : TRUE)[2] = Len(l) - 1
    THEN [g.h EXCEPT ![(CHOOSE r \in g.ret : TRUE)[1] + 1].value = value]
    ELSE push_unchecked(g.h, HistoriedValue(value, Len(l) - 1))

\* The value behind the handle get_mut / get_mut_pruning returns.
handle_value(g) == {g.h[r[1] + 1].value : r \in g.ret}

\* ---------------------------------------------------------------- state
VARIABLES
    layers,     \* States.0: the layer stack
    committed,  \* States.1: the committed index
    hist,       \* one History: the entries of one key
    last,       \* the last operation: its name, argument, result and the state before it
    cget,       \* get's result at the most recent commit_prospective
    rb,         \* unchecked_rollback_committed ran since the last commit_prospective
    cps,        \* <<c0, get's result>> of every commit_prospective whose boundary c0
                \* committed has not gone below since
    pruned,     \* get_mut_pruning ran with prune_to_commit = true
    script,     \* the operations so far, while they follow one of the two runs of
                \* the pruning example; <<"off">> once they do not
    trace       \* the operations so far, each with get's result before it

vars == <<layers, committed, hist, last, cget, rb, cps, pruned, script, trace>>

Record(op, arg, ret) ==
    [op |-> op, arg |-> arg, ret |-> ret, h0 |-> hist, l0 |-> layers, c0 |-> committed]

\* The operation alone, for the specifications that keep their own history.
Brief(op, arg) ==
    [op |-> op, arg |-> arg, ret |-> None, h0 |-> <<>>, l0 |-> <<>>, c0 |-> 0]

Init ==
    /\ layers = default_layers
    /\ committed = default_committed
    /\ hist = <<>>
    /\ last = Brief("new", 0)
    /\ cget = None
    /\ rb = FALSE
    /\ cps = {}
    /\ pruned = FALSE
    /\ script = <<>>
    /\ trace = <<>>

\* ------------------------------------------------- the operations' effects
\* history.set(states.as_ref_mut(), v)
do_set(v) ==
    /\ hist' = set(hist, layers, committed, v)
    /\ UNCHANGED <<layers, committed>>

\* history.get_mut(states.as_ref_mut()), the handle not written through
do_get_mut ==
    /\ hist' = get_mut(hist, layers, committed).h
    /\ UNCHANGED <<layers, committed>>

\* history.get_mut_pruning(states.as_ref_mut(), prune_to_commit)
do_get_mut_pruning(prune_to_commit) ==
    /\ hist' = get_mut_pruning(hist, layers, committed, prune_to_commit).h
    /\ UNCHANGED <<layers, committed>>

do_start_transaction ==
    /\ layers' = start_transaction(layers)
    /\ UNCHANGED <<committed, hist>>

do_commit_transaction ==
    /\ layers' = commit_transaction(layers, committed)
    /\ UNCHANGED <<committed, hist>>

do_discard_transaction ==
    /\ layers' = discard_transaction(layers, committed)
    /\ UNCHANGED <<committed, hist>>

do_commit_prospective ==
    /\ committed' = commit_prospective_committed(layers)
    /\ layers' = commit_prospective(layers)
    /\ UNCHANGED hist

do_discard_prospective ==
    /\ layers' = discard_prospective(layers, committed)
    /\ UNCHANGED <<committed, hist>>

do_unchecked_rollback_committed(old_committed) ==
    /\ committed' = old_committed
    /\ layers' = unchecked_rollback_committed(layers, old_committed)
    /\ UNCHANGED hist

\* ---------------------------------------------------------------- Spec
\* Every operation, in any order, each step recording the state before it.
Aside == <<cget, rb, cps, pruned, script, trace>>

Set(v) ==
    /\ do_set(v)
    /\ last' = Record("set", v, None)
    /\ UNCHANGED Aside

\* history.get(states.as_ref())
Get ==
    /\ last' = Record("get", 0, get(hist, layers))
    /\ UNCHANGED <<layers, committed, hist>>
    /\ UNCHANGED Aside

GetMut ==
    /\ do_get_mut
    /\ last' = Record("get_mut", 0, get_mut(hist, layers, committed).ret)
    /\ UNCHANGED Aside

GetMutPruning(prune_to_commit) ==
    /\ do_get_mut_pruning(prune_to_commit)
    /\ last' = Record("get_mut_pruning", prune_to_commit,
                      get_mut_pruning(hist, layers, committed, prune_to_commit).ret)
    /\ UNCHANGED Aside

StartTransaction ==
    /\ Len(layers) < MaxLayers
    /\ do_start_transaction
    /\ last' = Record("start_transaction", 0, None)
    /\ UNCHANGED Aside

CommitTransaction ==
    /\ Len(layers) < MaxLayers
    /\ do_commit_transaction
    /\ last' = Record("commit_transaction", 0, None)
    /\ UNCHANGED Aside

DiscardTransaction ==
    /\ Len(layers) < MaxLayers
    /\ do_discard_transaction
    /\ last' = Record("discard_transaction", 0, None)
    /\ UNCHANGED Aside

CommitProspective ==
    /\ Len(layers) < MaxLayers
    /\ do_commit_prospective
    /\ last' = Record("commit_prospective", 0, None)
    /\ UNCHANGED Aside

DiscardProspective ==
    /\ Len(layers) < MaxLayers
    /\ do_discard_prospective
    /\ last' = Record("discard_prospective", 0, None)
    /\ UNCHANGED Aside

UncheckedRollbackCommitted(old_committed) ==
    /\ Len(layers) < MaxLayers
    /\ do_unchecked_rollback_committed(old_committed)
    /\ last' = Record("unchecked_rollback_committed", old_committed, None)
    /\ UNCHANGED Aside

Next ==
    \/ \E v \in Values : Set(v)
    \/ Get
    \/ GetMut
    \/ \E b \in BOOLEAN : GetMutPruning(b)
    \/ StartTransaction
    \/ CommitTransaction
    \/ DiscardTransaction
    \/ CommitProspective
    \/ DiscardProspective
    \/ \E old \in 0..Len(layers) : UncheckedRollbackCommitted(old)

Spec == Init /\ [][Next]_vars

\* ---------------------------------------------------------------- SpecTx
\* set and the transaction operations only, each step appended to `trace`
\* with the value get returns before it.
Step(op, arg) == [op |-> op, arg |-> arg, g |-> get(hist, layers)]

TxAside == <<cget, rb, cps, pruned, script>>

TxSet(v) ==
    /\ Len(trace) < MaxTrace
    /\ do_set(v)
    /\ trace' = Append(trace, Step("set", v))
    /\ last' = Brief("set", v)
    /\ UNCHANGED TxAside

TxStartTransaction ==
    /\ Len(trace) < MaxTrace
    /\ do_start_transaction
    /\ trace' = Append(trace, Step("start_transaction", 0))
    /\ last' = Brief("start_transaction", 0)
    /\ UNCHANGED TxAside

TxCommitTransaction ==
    /\ Len(trace) < MaxTrace
    /\ do_commit_transaction
    /\ trace' = Append(trace, Step("commit_transaction", 0))
    /\ last' = Brief("commit_transaction", 0)
    /\ UNCHANGED TxAside

TxDiscardTransaction ==
    /\ Len(trace) < MaxTrace
    /\ do_discard_transaction
    /\ trace' = Append(trace, Step("discard_transaction", 0))
    /\ last' = Brief("discard_transaction", 0)
    /\ UNCHANGED TxAside

NextTx ==
    \/ \E v \in Values : TxSet(v)
    \/ TxStartTransaction
    \/ TxCommitTransaction
    \/ TxDiscardTransaction

SpecTx == Init /\ [][NextTx]_vars

\* ---------------------------------------------------------------- SpecProsp
\* Every operation, in any order, each step keeping the history the
\* prospective claims need: what get returned at each commit_prospective.
\* The two runs of the pruning example: set(a), commit_prospective (committed
\* becomes 1), set(b), commit_prospective, then get_mut_pruning(true) or not,
\* then unchecked_rollback_committed(1).
PruningRun(a, b) ==
    << <<"set", a>>, <<"commit_prospective", 0>>, <<"set", b>>,
       <<"commit_prospective", 0>>, <<"get_mut_pruning", 1>>,
       <<"unchecked_rollback_committed", 1>> >>

PlainRun(a, b) ==
    << <<"set", a>>, <<"commit_prospective", 0>>, <<"set", b>>,
       <<"commit_prospective", 0>>, <<"unchecked_rollback_committed", 1>> >>

IsPrefix(s, t) == Len(s) <= Len(t) /\ SubSeq(t, 1, Len(s)) = s

Follow(step) ==
    LET s == Append(script, step) IN
    IF script # <<"off">> /\ \E a, b \in Values :
                                 IsPrefix(s, PruningRun(a, b)) \/ IsPrefix(s, PlainRun(a, b))
    THEN s ELSE <<"off">>

PSet(v) ==
    /\ do_set(v)
    /\ last' = Brief("set", v)
    /\ script' = Follow(<<"set", v>>)
    /\ UNCHANGED <<cget, rb, cps, pruned, trace>>

PGetMut ==
    /\ do_get_mut
    /\ last' = Brief("get_mut", 0)
    /\ script' = <<"off">>
    /\ UNCHANGED <<cget, rb, cps, pruned, trace>>

PGetMutPruning(prune_to_commit) ==
    /\ do_get_mut_pruning(prune_to_commit)
    /\ last' = Brief("get_mut_pruning", prune_to_commit)
    /\ pruned' = (pruned \/ prune_to_commit)
    /\ script' = IF prune_to_commit THEN Follow(<<"get_mut_pruning", 1>>) ELSE <<"off">>
    /\ UNCHANGED <<cget, rb, cps, trace>>

PStartTransaction ==
    /\ Len(layers) < MaxLayers
    /\ do_start_transaction
    /\ last' = Brief("start_transaction", 0)
    /\ script' = <<"off">>
    /\ UNCHANGED <<cget, rb, cps, pruned, trace>>

PCommitTransaction ==
    /\ Len(layers) < MaxLayers
    /\ do_commit_transaction
    /\ last' = Brief("commit_transaction", 0)
    /\ script' = <<"off">>
    /\ UNCHANGED <<cget, rb, cps, pruned, trace>>

PDiscardTransaction ==
    /\ Len(layers) < MaxLayers
    /\ do_discard_transaction
    /\ last' = Brief("discard_transaction", 0)
    /\ script' = <<"off">>
    /\ UNCHANGED <<cget, rb, cps, pruned, trace>>

PCommitProspective ==
    /\ Len(layers) < MaxLayers
    /\ do_commit_prospective
    /\ last' = Brief("commit_prospective", 0)
    /\ cget' = get(hist, layers)
    /\ rb' = FALSE
    /\ cps' = cps \cup {<<commit_prospective_committed(layers), get(hist, layers)>>}
    /\ script' = Follow(<<"commit_prospective", 0>>)
    /\ UNCHANGED <<pruned, trace>>

PDiscardProspective ==
    /\ Len(layers) < MaxLayers
    /\ do_discard_prospective
    /\ last' = Brief("discard_prospective", 0)
    /\ script' = <<"off">>
    /\ UNCHANGED <<cget, rb, cps, pruned, trace>>

PUncheckedRollbackCommitted(old_committed) ==
    /\ Len(layers) < MaxLayers
    /\ do_unchecked_rollback_committed(old_committed)
    /\ last' = Brief("unchecked_rollback_committed", old_committed)
    /\ rb' = TRUE
    /\ cps' = {p \in cps : p[1] <= old_committed}
    /\ script' = Follow(<<"unchecked_rollback_committed", old_committed>>)
    /\ UNCHANGED <<cget, pruned, trace>>

NextProsp ==
    \/ \E v \in Values : PSet(v)
    \/ PGetMut
    \/ \E b \in BOOLEAN : PGetMutPruning(b)
    \/ PStartTransaction
    \/ PCommitTransaction
    \/ PDiscardTransaction
    \/ PCommitProspective
    \/ PDiscardProspective
    \/ \E old \in 0..Len(layers) : PUncheckedRollbackCommitted(old)

SpecProsp == Init /\ [][NextProsp]_vars

\* ---------------------------------------------------------------- SpecPure
\* get_mut and get_mut_pruning as functions of their arguments: any layer
\* stack of 1..MaxPure layers, any committed index within it, and any history
\* of at most as many entries as layers (the debug_assert of both functions),
\* each entry tagged with a layer of the stack. The code never looks at a
\* value, so entry k holds the value k.
PureLayers == UNION {[1..n -> TransactionState] : n \in 1..MaxPure}

PureHistories(l) ==
    UNION {{[k \in 1..n |-> HistoriedValue(k, idx[k])] : idx \in [1..n -> 0..(Len(l) - 1)]}
           : n \in 0..Len(l)}

InitPure ==
    /\ layers \in PureLayers
    /\ committed \in 0..Len(layers)
    /\ hist \in PureHistories(layers)
    /\ last = Brief("new", 0)
    /\ cget = None
    /\ rb = FALSE
    /\ cps = {}
    /\ pruned = FALSE
    /\ script = <<>>
    /\ trace = <<>>

PureGetMut ==
    /\ do_get_mut
    /\ last' = Record("get_mut", 0, get_mut(hist, layers, committed).ret)
    /\ UNCHANGED Aside

\* A call whose usize subtraction would underflow panics (or wraps) and is
\* left out.
PureGetMutPruning(prune_to_commit) ==
    /\ no_underflow(hist, layers, committed, prune_to_commit)
    /\ do_get_mut_pruning(prune_to_commit)
    /\ last' = Record("get_mut_pruning", prune_to_commit,
                      get_mut_pruning(hist, layers, committed, prune_to_commit).ret)
    /\ UNCHANGED Aside

\* history.clone().into_committed(states.as_ref(), states.committed()): the
\* clone is consumed, the caller's history stays.
PureIntoCommitted ==
    /\ last' = Record("into_committed", 0, into_committed(hist, layers, committed))
    /\ UNCHANGED <<layers, committed, hist>>
    /\ UNCHANGED Aside

NextPure ==
    \/ PureGetMut
    \/ \E b \in BOOLEAN : PureGetMutPruning(b)
    \/ PureIntoCommitted

SpecPure == InitPure /\ [][NextPure]_vars

\* ---------------------------------------------------------------- claims
\* The positions (1-based) of the entries whose layer is not Dropped.
LivePositions(h, l) == {k \in 1..Len(h) : l[h[k].index + 1] # "Dropped"}

SetMax(S) == CHOOSE x \in S : \A y \in S : y <= x

\* The value of the newest entry whose layer is not Dropped, if any.
NewestLive(h, l) ==
    IF LivePositions(h, l) = {} THEN None
    ELSE Some(h[SetMax(LivePositions(h, l))].value)

\* C2: in every reachable state get, into_pending, get_mut and get_mut_pruning
\* (with either flag) all yield the value of the newest entry whose layer is
\* not Dropped, and all yield absent when there is none.
C2_CrossMethodAgreement ==
    LET n == NewestLive(hist, layers) IN
    /\ get(hist, layers) = n
    /\ into_pending(hist, layers) = n
    /\ handle_value(get_mut(hist, layers, committed)) = n
    /\ \A b \in BOOLEAN : handle_value(get_mut_pruning(hist, layers, committed, b)) = n

\* A live entry lies under an entry of a Dropped layer: the readers skip.
C2_Witness ==
    /\ Len(hist) >= 2
    /\ layers[hist[Len(hist)].index + 1] = "Dropped"
    /\ get(hist, layers) # None

\* The open scopes: each is the run of layer indices from `s` (committed, or a
\* TxPending layer at or above it) up to just before the next TxPending layer.
ScopeStarts(l, c) == {c} \cup {i \in c..(Len(l) - 1) : l[i + 1] = "TxPending"}

ScopeOf(l, c, s) ==
    {i \in s..(Len(l) - 1) : \A j \in (s + 1)..i : l[j + 1] # "TxPending"}

EntriesIn(h, run) == {k \in 1..Len(h) : h[k].index \in run}

\* C3: immediately after get_mut or get_mut_pruning, every open scope holds at
\* most one entry of the history.
C3_CompactionBound ==
    last.op \in {"get_mut", "get_mut_pruning"} =>
        \A s \in ScopeStarts(layers, committed) :
            Cardinality(EntriesIn(hist, ScopeOf(layers, committed, s))) <= 1

\* A compaction that merged two entries of one scope into one slot.
C3_Witness ==
    /\ last.op \in {"get_mut", "get_mut_pruning"}
    /\ \E s \in ScopeStarts(last.l0, last.c0) :
           Cardinality(EntriesIn(last.h0, ScopeOf(last.l0, last.c0, s))) >= 2
    /\ Len(hist) >= 1

\* C9: the layer stack is never empty, committed <= layers.len(), and the top
\* layer is Pending or TxPending.
C9_LayerStackInvariant ==
    /\ Len(layers) >= 1
    /\ committed <= Len(layers)
    /\ layers[Len(layers)] \in {"Pending", "TxPending"}

\* unchecked_rollback_committed ran with old_committed = layers.len().
C9_Witness ==
    /\ last.op = "unchecked_rollback_committed"
    /\ last.arg = Len(last.l0)
    /\ "Dropped" \in {layers[i] : i \in 1..Len(layers)}

\* C10: immediately after set(states, v), get returns v.
C10_ReadYourWrite ==
    last.op = "set" => get(hist, layers) = Some(last.arg)

\* set overwrote the top-layer entry in place, inside a transaction, with
\* another value.
C10_Witness ==
    /\ last.op = "set"
    /\ Len(hist) = Len(last.h0)
    /\ Len(hist) >= 2
    /\ hist # last.h0
    /\ "TxPending" \in {layers[i] : i \in 1..Len(layers)}

\* set appended a new entry tagged layers.len() - 1 above a Dropped layer.
C10_WitnessAppend ==
    /\ last.op = "set"
    /\ Len(hist) = Len(last.h0) + 1
    /\ hist[Len(hist)].index = Len(layers) - 1
    /\ "Dropped" \in {layers[i] : i \in 1..Len(layers)}

\* ------------------------------------------------ claims on SpecTx
Front(t) == SubSeq(t, 1, Len(t) - 1)

\* The positions in t of the start_transaction steps whose frame is still
\* open after t, innermost last: start_transaction opens a frame,
\* commit_transaction and discard_transaction close the innermost open one.
RECURSIVE OpenFrames(_)
OpenFrames(t) ==
    IF t = <<>> THEN <<>>
    ELSE LET prev == OpenFrames(Front(t))
             o == t[Len(t)].op
         IN IF o = "start_transaction" THEN Append(prev, Len(t))
            ELSE IF o \in {"commit_transaction", "discard_transaction"} /\ prev # <<>>
                 THEN Front(prev)
                 ELSE prev

\* The frame the last step of t closed: the position of its start_transaction.
Closed(t) == LET open == OpenFrames(Front(t)) IN open[Len(open)]

Closes(t, op) == t # <<>> /\ t[Len(t)].op = op /\ OpenFrames(Front(t)) # <<>>

\* C1: when discard_transaction closes a frame opened by a start_transaction,
\* get returns what it returned just before that start_transaction.
C1_RollbackLaw ==
    Closes(trace, "discard_transaction") =>
        get(hist, layers) = trace[Closed(trace)].g

\* A nested frame, written in, is discarded: a value was visible before it
\* opened and another one just before the discard.
C1_Witness ==
    /\ Closes(trace, "discard_transaction")
    /\ Len(OpenFrames(trace)) >= 1
    /\ trace[Closed(trace)].g # None
    /\ trace[Len(trace)].g # trace[Closed(trace)].g

\* The positions of the matched start_transaction / commit_transaction pairs.
Folded(t) ==
    UNION {{k, Closed(SubSeq(t, 1, k))} : k \in {j \in 1..Len(t) : Closes(SubSeq(t, 1, j), "commit_transaction")}}

RECURSIVE Keep(_, _, _)
Keep(t, drop, k) ==
    IF k > Len(t) THEN <<>>
    ELSE IF k \in drop THEN Keep(t, drop, k + 1)
         ELSE <<t[k]>> \o Keep(t, drop, k + 1)

\* The run with the matched pairs omitted.
Unfolded(t) == Keep(t, Folded(t), 1)

\* The state a run of set and transaction operations leaves, from States::default
\* and an empty History.
RECURSIVE Replay(_)
Replay(t) ==
    IF t = <<>> THEN [h |-> <<>>, l |-> default_layers, c |-> default_committed]
    ELSE LET s == Replay(Front(t))
             o == t[Len(t)]
         IN CASE o.op = "set" -> [s EXCEPT !.h = set(s.h, s.l, s.c, o.arg)]
              [] o.op = "start_transaction" -> [s EXCEPT !.l = start_transaction(s.l)]
              [] o.op = "commit_transaction" -> [s EXCEPT !.l = commit_transaction(s.l, s.c)]
              [] o.op = "discard_transaction" -> [s EXCEPT !.l = discard_transaction(s.l, s.c)]

\* The last set of frame (p, n) when no discard_transaction follows it there.
LastWritten(t, p) ==
    LET sets == {k \in (p + 1)..(Len(t) - 1) : t[k].op = "set"} IN
    IF sets = {} \/ \E k \in (SetMax(sets) + 1)..(Len(t) - 1) : t[k].op = "discard_transaction"
    THEN None
    ELSE Some(t[SetMax(sets)].arg)

\* C4: a frame closed by commit_transaction behaves as ordinary writes to the
\* enclosing scope: get returns the last value written inside it, and get
\* always returns what it returns in the run with the matched
\* start_transaction / commit_transaction pairs omitted.
C4_FoldCorrectness ==
    /\ get(hist, layers) = get(Replay(Unfolded(trace)).h, Replay(Unfolded(trace)).l)
    /\ Closes(trace, "commit_transaction") =>
           \A v \in LastWritten(trace, Closed(trace)) : get(hist, layers) = Some(v)

\* Two nested frames, the outer one written in, were both committed, and then
\* the enclosing scope was discarded.
C4_Witness ==
    /\ Cardinality(Folded(trace)) >= 4
    /\ trace[Len(trace)].op = "discard_transaction"
    /\ \E k \in 1..Len(trace) : trace[k].op = "set" /\ k > 1 /\ k - 1 \in Folded(trace)

\* ------------------------------------------------ claims on SpecProsp
\* C5: with no unchecked_rollback_committed since the most recent
\* commit_prospective (or since the start, when there was none), after
\* discard_prospective get returns what it returned at that
\* commit_prospective (absent when there was none).
C5_ProspectiveDurability ==
    (last.op = "discard_prospective" /\ ~rb) => get(hist, layers) = cget

\* Work was committed, then a transaction overwrote it, the history was
\* compacted with pruning, and the prospective work was discarded.
C5_Witness ==
    /\ last.op = "discard_prospective"
    /\ ~rb
    /\ pruned
    /\ cget # None
    /\ Len(hist) >= 2
    /\ hist[Len(hist)].value # hist[1].value

\* C6: with no get_mut_pruning(true) ever, and committed at or above c0 since
\* the commit_prospective that set it to c0, after
\* unchecked_rollback_committed(c0) get returns what it returned at that
\* commit_prospective.
C6_RollbackWithoutPruning ==
    (last.op = "unchecked_rollback_committed" /\ ~pruned) =>
        \A p \in cps : p[1] = last.arg => get(hist, layers) = p[2]

\* A rollback to the boundary of an earlier commit_prospective, past a later
\* commit that had changed the value.
C6_Witness ==
    /\ last.op = "unchecked_rollback_committed"
    /\ ~pruned
    /\ \E p \in cps : p[1] = last.arg /\ p[2] # None /\ p[2] # cget
    /\ Len(hist) >= 2

\* C7: set(a), commit_prospective, set(b), commit_prospective,
\* get_mut_pruning(true), unchecked_rollback_committed(1) leaves get not
\* returning a; the same run without the pruning call leaves get returning a.
C7_PruningDataLoss ==
    \A a, b \in Values :
        /\ script = PruningRun(a, b) => get(hist, layers) # Some(a)
        /\ script = PlainRun(a, b) => get(hist, layers) = Some(a)

\* The run with the pruning call has been made, with two different values.
C7_Witness ==
    /\ \E a, b \in Values : a # b /\ script = PruningRun(a, b)
    /\ committed = 1
    /\ get(hist, layers) = None

\* The run without the pruning call has been made.
C7_WitnessPlain ==
    \E a, b \in Values : a # b /\ script = PlainRun(a, b) /\ Len(hist) = 2

\* ------------------------------------------------ claims on SpecPure
\* C8: with prune_to_commit = false, get_mut_pruning returns the same position
\* and layer index as get_mut (hence the same value) and leaves the same
\* entries, for every history and (layers, committed) pair.
C8_UnflaggedPruningIsGetMut ==
    /\ get_mut_pruning(hist, layers, committed, FALSE) = get_mut(hist, layers, committed)
    /\ (last.op = "get_mut_pruning" /\ last.arg = FALSE) =>
           /\ hist = get_mut(last.h0, last.l0, last.c0).h
           /\ last.ret = get_mut(last.h0, last.l0, last.c0).ret

\* get_mut_pruning(false) compacted a history that the flag would have pruned.
C8_Witness ==
    /\ last.op = "get_mut_pruning"
    /\ last.arg = FALSE
    /\ hist # last.h0
    /\ last.ret # None
    /\ get_mut_pruning(last.h0, last.l0, last.c0, TRUE).h # hist

\* C11: into_committed returns the value of the newest entry whose layer is
\* not Dropped and lies strictly below committed, ignoring every entry at or
\* above committed, and absent when there is none (always when committed = 0).
CommittedLivePositions(h, l, c) == {k \in LivePositions(h, l) : h[k].index < c}

NewestCommittedLive(h, l, c) ==
    IF CommittedLivePositions(h, l, c) = {} THEN None
    ELSE Some(h[SetMax(CommittedLivePositions(h, l, c))].value)

C11_IntoCommitted ==
    /\ into_committed(hist, layers, committed) = NewestCommittedLive(hist, layers, committed)
    /\ committed = 0 => into_committed(hist, layers, committed) = None
    /\ last.op = "into_committed" =>
           last.ret = NewestCommittedLive(last.h0, last.l0, last.c0)

\* into_committed returned a value from under a live entry at or above
\* committed, which it ignored.
C11_Witness ==
    /\ last.op = "into_committed"
    /\ last.ret # None
    /\ get(hist, layers) # last.ret
    /\ hist[Len(hist)].index >= committed

\* ------------------------------------------------ frame effects (Spec)
\* The layers of l at or above c that are TxPending.
OpenTx(l, c) == {i \in c..(Len(l) - 1) : l[i + 1] = "TxPending"}

\* C12: commit_transaction flips the topmost TxPending layer at or above
\* committed to Pending and changes no other existing layer nor committed;
\* with no such layer no existing layer changes; one Pending layer is appended.
C12_CommitTransactionFrame ==
    last.op = "commit_transaction" =>
        /\ committed = last.c0
        /\ Len(layers) = Len(last.l0) + 1
        /\ layers[Len(layers)] = "Pending"
        /\ SubSeq(layers, 1, Len(last.l0)) =
               IF OpenTx(last.l0, last.c0) = {} THEN last.l0
               ELSE [last.l0 EXCEPT ![SetMax(OpenTx(last.l0, last.c0)) + 1] = "Pending"]

\* commit_transaction flipped the inner of two open frames and left the outer.
C12_Witness ==
    /\ last.op = "commit_transaction"
    /\ Cardinality(OpenTx(last.l0, last.c0)) >= 2
    /\ Cardinality(OpenTx(layers, committed)) = Cardinality(OpenTx(last.l0, last.c0)) - 1

\* commit_transaction with the only TxPending layer below committed.
C12_WitnessFrozen ==
    /\ last.op = "commit_transaction"
    /\ OpenTx(last.l0, last.c0) = {}
    /\ OpenTx(last.l0, 0) # {}

\* C13: discard_transaction flips to Dropped exactly the layers from the
\* topmost TxPending layer at or above committed up to the top, or all of
\* [committed, layers.len()) with no such layer; layers below and committed
\* are unchanged; one Pending layer is appended.
C13_DiscardTransactionFrame ==
    last.op = "discard_transaction" =>
        LET lo == IF OpenTx(last.l0, last.c0) = {} THEN last.c0
                  ELSE SetMax(OpenTx(last.l0, last.c0))
        IN /\ committed = last.c0
           /\ Len(layers) = Len(last.l0) + 1
           /\ layers[Len(layers)] = "Pending"
           /\ \A i \in 0..(Len(last.l0) - 1) :
                  layers[i + 1] = IF i >= lo THEN "Dropped" ELSE last.l0[i + 1]
           /\ last.l0 = <<"Pending", "TxPending">> =>
                  layers = <<"Pending", "Dropped", "Pending">>

\* discard_transaction dropped the inner of two open frames and left the
\* outer one open.
C13_Witness ==
    /\ last.op = "discard_transaction"
    /\ Cardinality(OpenTx(last.l0, last.c0)) >= 2
    /\ Cardinality(OpenTx(layers, committed)) = Cardinality(OpenTx(last.l0, last.c0)) - 1

\* The example of the claim: [Pending, TxPending] discarded.
C13_WitnessExample ==
    /\ last.op = "discard_transaction"
    /\ last.l0 = <<"Pending", "TxPending">>

\* ------------------------------------------------ invariants of the history (Spec)
\* C14: the layer indices of the entries are non-decreasing in array order,
\* also after compaction relabels the retained entry.
C14_EntryOrdering ==
    \A k \in 1..(Len(hist) - 1) : hist[k].index <= hist[k + 1].index

\* A compaction moved the newest entry down into the slot of an older entry of
\* its scope, relabelled with that entry's lower layer index, above another
\* entry.
C14_Witness ==
    /\ last.op \in {"get_mut", "get_mut_pruning"}
    /\ Len(hist) >= 2
    /\ Len(last.h0) > Len(hist)
    /\ hist[Len(hist)].value = last.h0[Len(last.h0)].value
    /\ hist[Len(hist)].index < last.h0[Len(last.h0)].index

StatesOps ==
    {"start_transaction", "commit_transaction", "discard_transaction",
     "commit_prospective", "discard_prospective", "unchecked_rollback_committed"}

\* C15: every Layer Stack operation appends exactly one layer and removes
\* none, every entry's layer index is below layers.len(), and the history is
\* no longer than the layer stack (the debug_assert of the lookups).
C15_LayerIndicesValid ==
    /\ last.op \in StatesOps => Len(layers) = Len(last.l0) + 1
    /\ \A k \in 1..Len(hist) : hist[k].index < Len(layers)
    /\ Len(hist) <= Len(layers)

\* Two entries, the newer one written in a frame that discard_transaction
\* has just dropped: its layer index still points into the stack.
C15_Witness ==
    /\ last.op = "discard_transaction"
    /\ Len(hist) >= 2
    /\ hist[Len(hist)].index = Len(last.l0) - 1
    /\ layers[hist[Len(hist)].index + 1] = "Dropped"

Compactions == {"get_mut", "get_mut_pruning"}

\* C16: a get_mut or get_mut_pruning call (either flag) whose handle is not
\* written through leaves the result of get and the result of into_committed
\* (for the current committed) unchanged.
C16_CompactionTransparent ==
    last.op \in Compactions =>
        /\ get(hist, layers) = get(last.h0, last.l0)
        /\ into_committed(hist, layers, committed) =
               into_committed(last.h0, last.l0, last.c0)

\* A pruning compaction removed entries while a committed value and a
\* different prospective value were both visible.
C16_Witness ==
    /\ last.op = "get_mut_pruning"
    /\ last.arg = TRUE
    /\ Len(hist) < Len(last.h0)
    /\ into_committed(hist, layers, committed) # None
    /\ get(hist, layers) # into_committed(hist, layers, committed)

\* A plain compaction merged two entries of one scope.
C16_WitnessMerge ==
    /\ last.op = "get_mut"
    /\ Len(hist) < Len(last.h0)
    /\ get(hist, layers) # None
    /\ hist[Len(hist)] \notin {last.h0[k] : k \in 1..Len(last.h0)}

\* C17: when some live entry has a layer index below committed, after
\* get_mut_pruning(true) exactly one entry has a layer index below committed:
\* the newest such live entry, now first in the history.
C17_EagerPruning ==
    (/\ last.op = "get_mut_pruning"
     /\ last.arg = TRUE
     /\ CommittedLivePositions(last.h0, last.l0, last.c0) # {}) =>
        /\ Cardinality({k \in 1..Len(hist) : hist[k].index < committed}) = 1
        /\ hist[1] = last.h0[SetMax(CommittedLivePositions(last.h0, last.l0, last.c0))]

\* Pruning removed an older committed entry from under the newest one.
C17_Witness ==
    /\ last.op = "get_mut_pruning"
    /\ last.arg = TRUE
    /\ SetMax(CommittedLivePositions(last.h0, last.l0, last.c0) \cup {0}) >= 2
    /\ hist[1] = last.h0[2]

\* C18: when a set directly follows a set, the second one does not make the
\* history longer than the first one left it, and get returns the second value.
C18_RedundantWritesCollapse ==
    [][(last.op = "set" /\ last'.op = "set") =>
           /\ Len(hist') <= Len(hist)
           /\ get(hist', layers') = Some(last'.arg)]_vars

\* A set has just overwritten, in place, the value the set before it left at
\* the top layer.
C18_Witness ==
    /\ last.op = "set"
    /\ last.h0 # <<>>
    /\ last.h0 = set(last.h0, last.l0, last.c0, last.h0[Len(last.h0)].value)
    /\ last.h0[Len(last.h0)].value # last.arg
    /\ Len(hist) = Len(last.h0)
    /\ get(hist, layers) = Some(last.arg)

DroppedPositions(h, l) == {k \in 1..Len(h) : l[h[k].index + 1] = "Dropped"}

Writes == {"set", "get_mut", "get_mut_pruning"}

\* C19: no entry of a Dropped layer sits before an entry of a live layer, and
\* right after a set, or a get_mut / get_mut_pruning that returned a handle,
\* no entry of the history is tagged with a Dropped layer.
C19_DroppedSuffix ==
    /\ \A j \in DroppedPositions(hist, layers) :
           \A k \in LivePositions(hist, layers) : k < j
    /\ (last.op = "set" \/ (last.op \in Writes /\ last.ret # None)) =>
           DroppedPositions(hist, layers) = {}

\* A get_mut that returned a handle has removed the Dropped entries that sat
\* above a live one.
C19_Witness ==
    /\ last.op = "get_mut"
    /\ last.ret # None
    /\ DroppedPositions(last.h0, last.l0) # {}
    /\ LivePositions(last.h0, last.l0) # {}
    /\ DroppedPositions(hist, layers) = {}
    /\ hist # <<>>

FrozenOps == {"start_transaction", "commit_transaction", "discard_transaction",
              "commit_prospective", "discard_prospective"}

\* C20: start_transaction, commit_transaction, discard_transaction,
\* commit_prospective and discard_prospective leave every layer below committed
\* in its state, and only unchecked_rollback_committed lowers committed.
C20_CommittedFrozen ==
    /\ last.op \in FrozenOps =>
           /\ Len(layers) >= Len(last.l0)
           /\ \A i \in 0..(last.c0 - 1) : layers[i + 1] = last.l0[i + 1]
    /\ last.op # "unchecked_rollback_committed" => committed >= last.c0

\* A transaction operation ran over a TxPending frame that commit_prospective
\* had frozen, and the frame is still TxPending.
C20_Witness ==
    /\ last.op \in {"commit_transaction", "discard_transaction"}
    /\ \E i \in 0..(last.c0 - 1) :
           /\ last.l0[i + 1] = "TxPending"
           /\ layers[i + 1] = "TxPending"
    /\ committed = last.c0

====
